---- MODULE Spec2Model ----
(***************************************************************************)
(* Model of main.py: the School/Student records, the weightage score and   *)
(* the greedy allocation loop of main().                                   *)
(*                                                                         *)
(* Floats are modelled as fixed-point integers in thousandths (0.5 is 500).*)
(* Over the locations used here the squared distances are 0, 1 and 2, and  *)
(* every pair of distinct float scores differs by far more than 0.001, so  *)
(* the fixed-point order of scores is the float order.                     *)
(*                                                                         *)
(* A Python call that may raise is modelled as a record:                   *)
(*   [raised |-> FALSE, val |-> v]   the call returned v                   *)
(*   [raised |-> TRUE,  exc |-> e]   the call raised exception e           *)
(***************************************************************************)
EXTENDS Integers, Sequences, FiniteSets, TLC

\* ------------------------------------------------------------- bounds

\* Largest number of students in the input document.
MaxStudents == 2

\* Largest maxAllocation of a school in the input document.
MaxCap == 2

\* School names of the input documents, and where each school stands.
SchoolNames == {"A", "B"}

SchoolLocation(name) == IF name = "A" THEN <<0, 0>> ELSE <<1, 0>>

\* Home locations of the input documents (two of them are school locations).
HomeLocations == {<<0, 0>>, <<1, 0>>, <<0, 1>>}

\* Python's None (no school is named "None").
None == "None"

\* The "alumni" and "volunteer" values of the input documents: a student may
\* be an alumnus of school A and a volunteer of school B.
AlumniValues == {None, "A"}

VolunteerValues == {None, "B"}

\* ------------------------------------------------------------ records

School == [name : SchoolNames, location : HomeLocations, maxAllocation : 0..MaxCap]

Student == [id : 1..MaxStudents, homeLocation : HomeLocations,
            alumni : AlumniValues, volunteer : VolunteerValues]

\* The weights 0.5, 0.3 and 0.2, in thousandths.
weightage_homeSchoolDistance == 500

weightage_schoolAlumni == 300

weightage_schoolVolunteer == 200

\* ------------------------------------------------- Python primitives

Ok(v) == [raised |-> FALSE, val |-> v]

Raise(e) == [raised |-> TRUE, exc |-> e]

\* floor(sqrt(n)) by bisection on lo..hi, lo*lo <= n < (hi+1)*(hi+1).
RECURSIVE ISqrt(_, _, _)
ISqrt(n, lo, hi) ==
    IF lo >= hi THEN lo
    ELSE LET mid == (lo + hi + 1) \div 2
         IN IF mid * mid <= n THEN ISqrt(n, mid, hi) ELSE ISqrt(n, lo, mid - 1)

\* The squared distances between the locations of the input documents.
SquaredDistances ==
    {(a[1] - b[1]) * (a[1] - b[1]) + (a[2] - b[2]) * (a[2] - b[2]) :
        a \in HomeLocations, b \in HomeLocations}

\* The square roots, in thousandths, of 0, 1, ..., n (the value for k at k + 1).
RECURSIVE SquareRoots(_)
SquareRoots(n) ==
    IF n < 0 THEN <<>>
    ELSE Append(SquareRoots(n - 1), ISqrt(n * 1000000, 0, (n + 1) * 1000))

\* The square roots of every squared distance that occurs, computed once.
SquareRootTable ==
    SquareRoots(CHOOSE m \in SquaredDistances : \A d \in SquaredDistances : d <= m)

\* n ** 0.5 of a non-negative integer n, in thousandths.
PowHalf(n) == SquareRootTable[n + 1]

\* a / b for an integer a and a float b in thousandths: the quotient in
\* thousandths, or ZeroDivisionError when b is zero.
TrueDiv(a, b) ==
    IF b = 0 THEN Raise("ZeroDivisionError") ELSE Ok((a * 1000000) \div b)

\* a * b of two floats in thousandths.
FloatMul(a, b) == (a * b) \div 1000

\* Faulty variant: the slice keeps one element too many.
SliceTo_OneMore(seq, k) == SubSeq(seq, 1, IF k + 1 > Len(seq) THEN Len(seq) ELSE k + 1)

\* Faulty variant: a stop of 0 is taken as "no stop" (seq[: k or None]).
SliceTo_ZeroIsNone(seq, k) ==
    SubSeq(seq, 1, IF k = 0 \/ k > Len(seq) THEN Len(seq) ELSE k)

\* seq[:k], with Python's clamping and its negative stop counted from the end.
SliceTo(seq, k) ==
    LET n == Len(seq)
        stop == IF k < 0 THEN (IF n + k < 0 THEN 0 ELSE n + k)
                ELSE (IF k > n THEN n ELSE k)
    IN SubSeq(seq, 1, stop)

\* x in list
InList(x, list) == \E i \in 1..Len(list) : list[i] = x

\* key in d, for a dict d kept as the sequence of its items in insertion order.
HasKey(d, k) == \E i \in 1..Len(d) : d[i].key = k

\* d[k]
DictGet(d, k) == d[CHOOSE i \in 1..Len(d) : d[i].key = k].values

\* d[k] = v: a new key is appended, an existing key keeps its position.
DictSet(d, k, v) ==
    IF HasKey(d, k)
    THEN [i \in 1..Len(d) |-> IF d[i].key = k THEN [key |-> k, values |-> v] ELSE d[i]]
    ELSE Append(d, [key |-> k, values |-> v])

\* Tuple comparison a < b of two pairs.
TupleLess(a, b) == a[1] < b[1] \/ (a[1] = b[1] /\ a[2] < b[2])

\* Insert a keyed item after every item whose key is not greater.
RECURSIVE InsertKeyed(_, _)
InsertKeyed(sortedItems, p) ==
    IF sortedItems = <<>> THEN <<p>>
    ELSE IF TupleLess(p.key, Head(sortedItems).key) THEN <<p>> \o sortedItems
    ELSE <<Head(sortedItems)>> \o InsertKeyed(Tail(sortedItems), p)

\* The stable sort of keyed items by key (what sorted() does with the keys).
RECURSIVE StableSort(_)
StableSort(items) ==
    IF items = <<>> THEN <<>>
    ELSE InsertKeyed(StableSort(SubSeq(items, 1, Len(items) - 1)), items[Len(items)])

\* ---------------------------------------------------------- Student

homeSchoolDistance(student, school) ==
    LET x_euclidean == (student.homeLocation[1] - school.location[1])
                       * (student.homeLocation[1] - school.location[1])
        y_euclidean == (student.homeLocation[2] - school.location[2])
                       * (student.homeLocation[2] - school.location[2])
    IN PowHalf(x_euclidean + y_euclidean)

is_alumni(student, school) == student.alumni = school.name

is_volunteer(student, school) == student.volunteer = school.name

weightage_score(student, school) ==
    LET inv == TrueDiv(1, homeSchoolDistance(student, school))
    IN IF inv.raised THEN inv
       ELSE Ok(FloatMul(inv.val, weightage_homeSchoolDistance)
               + (IF is_alumni(student, school) THEN weightage_schoolAlumni ELSE 0)
               + (IF is_volunteer(student, school) THEN weightage_schoolVolunteer ELSE 0))

\* ------------------------------------------------------------- main

\* Faulty variant: the key has no tie-break on the id.
SortKey_NoTieBreak(student, school) ==
    LET score == weightage_score(student, school)
    IN IF score.raised THEN score ELSE Ok(<<-score.val, 0>>)

\* Faulty variant: the score is not negated, so the sort is ascending by score.
SortKey_Ascending(student, school) ==
    LET score == weightage_score(student, school)
    IN IF score.raised THEN score ELSE Ok(<<score.val, student.id>>)

\* The key function of the sort: (-score, id).
SortKey(student, school) ==
    LET score == weightage_score(student, school)
    IN IF score.raised THEN score ELSE Ok(<<-score.val, student.id>>)

\* The key of every student of the list, each computed once, in list order.
RECURSIVE Keys(_, _)
Keys(studs, school) ==
    IF studs = <<>> THEN <<>>
    ELSE <<SortKey(Head(studs), school)>> \o Keys(Tail(studs), school)

\* Faulty variant: a student whose key raises is skipped instead of aborting the sort.
sorted_students_SkipRaising(studs, school) ==
    LET good == SelectSeq(studs, LAMBDA s : ~SortKey(s, school).raised)
        keys == Keys(good, school)
        sortedItems == StableSort([i \in 1..Len(good) |->
                                      [key |-> keys[i].val, item |-> good[i]]])
    IN Ok([i \in 1..Len(sortedItems) |-> sortedItems[i].item])

\* sorted(students, key=...): the key of every student is computed first, in
\* list order, and the first exception a key raises leaves sorted().
sorted_students(studs, school) ==
    LET keys == Keys(studs, school)
        raising == {i \in 1..Len(studs) : keys[i].raised}
    IN IF raising # {}
       THEN Raise(keys[CHOOSE i \in raising : \A j \in raising : i <= j].exc)
       ELSE LET sortedItems == StableSort([i \in 1..Len(studs) |->
                                              [key |-> keys[i].val, item |-> studs[i]]])
            IN Ok([i \in 1..Len(sortedItems) |-> sortedItems[i].item])

\* [student.id for student in sorted_students[: school.maxAllocation]]
Allocated(sortedStuds, school) ==
    LET chosen == SliceTo(sortedStuds, school.maxAllocation)
    IN [i \in 1..Len(chosen) |-> chosen[i].id]

\* Faulty variant: the allocated students stay in the list.
Remaining_NoRemoval(studs, ids) == studs

\* Faulty variant: only the first allocated student is removed.
Remaining_FirstOnly(studs, ids) ==
    SelectSeq(studs, LAMBDA s : ids = <<>> \/ s.id # ids[1])

\* [s for s in students if s.id not in result[school.name]]
Remaining(studs, ids) == SelectSeq(studs, LAMBDA s : ~InList(s.id, ids))

\* Faulty variant: a school with no allocated student is left out of the output.
FormattedResult_DropEmpty(d) == SelectSeq(d, LAMBDA e : e.values # <<>>)

\* [{key: values} for key, values in result.items()]
FormattedResult(d) == [i \in 1..Len(d) |-> [key |-> d[i].key, values |-> d[i].values]]

\* The body of "for school in schools": the students left and the result
\* after it, or the exception that leaves it.
LoopBody(studs, res, school) ==
    LET sorted == sorted_students(studs, school)
    IN IF sorted.raised THEN sorted
       ELSE LET res2 == DictSet(res, school.name, Allocated(sorted.val, school))
            IN Ok([students |-> Remaining(studs, DictGet(res2, school.name)),
                   result |-> res2])

\* The loop from school i on, then the formatting of the result.
RECURSIVE RunLoop(_, _, _, _)
RunLoop(schs, i, studs, res) ==
    IF i > Len(schs) THEN Ok(FormattedResult(res))
    ELSE LET step == LoopBody(studs, res, schs[i])
         IN IF step.raised THEN step
            ELSE RunLoop(schs, i + 1, step.val.students, step.val.result)

\* main() on a document: what it writes to output.json, or the exception.
Main(schs, studs) == RunLoop(schs, 1, studs, <<>>)

\* ------------------------------------------------------------ inputs

\* The sequences of distinct elements of S of length n.
RECURSIVE DistinctSeqs(_, _)
DistinctSeqs(S, n) ==
    IF n = 0 THEN {<<>>}
    ELSE {Append(q, x) : <<q, x>> \in
            {<<q, x>> \in DistinctSeqs(S, n - 1) \X S : ~InList(x, q)}}

\* The "schools" arrays with the given sequences of names, each school where
\* it stands.
SchoolListsOf(nameSeqs) ==
    UNION {
        {[i \in 1..Len(names) |->
              [name |-> names[i], location |-> SchoolLocation(names[i]),
               maxAllocation |-> caps[i]]] :
           caps \in [1..Len(names) -> 0..MaxCap]} :
        names \in nameSeqs}

\* The "students" arrays of n students with the given sequences of ids and
\* the given volunteer values.
StudentListsOf(n, idSeqs, volunteers) ==
    {[i \in 1..n |->
          [id |-> ids[i], homeLocation |-> homes[i],
           alumni |-> alu[i], volunteer |-> vol[i]]] :
       <<ids, homes, alu, vol>> \in
           idSeqs \X [1..n -> HomeLocations]
           \X [1..n -> AlumniValues] \X [1..n -> volunteers]}

\* The documents of the schema: school names are unique and student ids are
\* unique (the ids of n students are 1..n in some order).
SchoolLists ==
    SchoolListsOf(UNION {DistinctSeqs(SchoolNames, n) : n \in 0..Cardinality(SchoolNames)})

StudentLists ==
    UNION {StudentListsOf(n, DistinctSeqs(1..n, n), VolunteerValues) : n \in 0..MaxStudents}

\* Any document: school names and student ids may repeat (no student is a
\* volunteer, which keeps these documents few).
AnySchoolLists ==
    SchoolListsOf(UNION {[1..n -> SchoolNames] : n \in 0..Cardinality(SchoolNames)})

AnyStudentLists ==
    UNION {StudentListsOf(n, [1..n -> 1..n], {None}) : n \in 0..MaxStudents}

\* ------------------------------------------------------------- state

VARIABLES
    schools,        \* the School objects of the document, in document order
    json_students,  \* the Student objects of the document, in document order
    students,       \* the students not yet allocated
    result,         \* the dict school name -> allocated ids, in insertion order
    school_index,   \* the position of the for loop in schools
    pc,             \* "loop", "done" or "error"
    exception,      \* the exception that left main(), or None
    output_json     \* the file output.json

vars == <<schools, json_students, students, result, school_index, pc,
          exception, output_json>>

Init ==
    /\ schools \in SchoolLists
    /\ json_students \in StudentLists
    /\ students = json_students
    /\ result = <<>>
    /\ school_index = 1
    /\ pc = "loop"
    /\ exception = None
    /\ output_json = [written |-> FALSE, content |-> <<>>]

\* One iteration of "for school in schools".
LoopIteration ==
    /\ pc = "loop"
    /\ school_index <= Len(schools)
    /\ LET step == LoopBody(students, result, schools[school_index])
       IN IF step.raised
          THEN /\ pc' = "error"
               /\ exception' = step.exc
               /\ UNCHANGED <<students, result, school_index>>
          ELSE /\ result' = step.val.result
               /\ students' = step.val.students
               /\ school_index' = school_index + 1
               /\ UNCHANGED <<pc, exception>>
    /\ UNCHANGED <<schools, json_students, output_json>>

\* After the loop: the result is formatted and written to output.json.
WriteOutput ==
    /\ pc = "loop"
    /\ school_index > Len(schools)
    /\ output_json' = [written |-> TRUE, content |-> FormattedResult(result)]
    /\ pc' = "done"
    /\ UNCHANGED <<schools, json_students, students, result, school_index, exception>>

Next == LoopIteration \/ WriteOutput

Spec == Init /\ [][Next]_vars

\* main() started on any document, repeated names and ids included.
InitAnyDocument ==
    /\ schools \in AnySchoolLists
    /\ json_students \in AnyStudentLists
    /\ students = json_students
    /\ result = <<>>
    /\ school_index = 1
    /\ pc = "loop"
    /\ exception = None
    /\ output_json = [written |-> FALSE, content |-> <<>>]

SpecAnyDocument == InitAnyDocument /\ [][Next]_vars

\* ------------------------------------------------------- properties

\* The elements of a list.
Elems(list) == {list[i] : i \in 1..Len(list)}

\* The ids of a list of students.
Ids(studs) == {studs[i].id : i \in 1..Len(studs)}

NoDuplicates(list) == \A i, j \in 1..Len(list) : list[i] = list[j] => i = j

UniqueIds(studs) == \A i, j \in 1..Len(studs) : studs[i].id = studs[j].id => i = j

UniqueNames(schs) == \A i, j \in 1..Len(schs) : schs[i].name = schs[j].name => i = j

\* The student of the list with the id.
StudentWithId(studs, id) == studs[CHOOSE i \in 1..Len(studs) : studs[i].id = id]

\* The position of x in a list that holds it.
IndexOf(list, x) == CHOOSE i \in 1..Len(list) : list[i] = x

\* All the allocated lists of a dict or of an output, one after the other.
RECURSIVE Flatten(_)
Flatten(d) == IF d = <<>> THEN <<>> ELSE Head(d).values \o Flatten(Tail(d))

\* The orderings of a list.
Orderings(list) ==
    {[i \in 1..Len(list) |-> list[p[i]]] : p \in DistinctSeqs(1..Len(list), Len(list))}

SchoolNamed(name) == schools[CHOOSE i \in 1..Len(schools) : schools[i].name = name]

\* A school is about to be processed.
Processing == pc = "loop" /\ school_index <= Len(schools)

\* A student of the list lives where the school stands.
LivesAtSchool(studs, school) ==
    \E i \in 1..Len(studs) : studs[i].homeLocation = school.location

\* The score of a student who does not live where the school stands.
Score(student, school) == weightage_score(student, school).val

\* The step is an iteration of the loop that ran to its end.
IterationCompleted == Processing /\ school_index' = school_index + 1

\* The list the iteration just completed recorded for its school.
JustAllocated == DictGet(result', schools[school_index].name)

Min(a, b) == IF a < b THEN a ELSE b

\* C1: when the ids of the input are unique and the run completes, no id
\* occurs twice in the allocated lists of the output taken together, and every
\* allocated id is the id of an input student.
C1_Partition ==
    (pc = "done" /\ UniqueIds(json_students)) =>
        /\ NoDuplicates(Flatten(output_json.content))
        /\ Elems(Flatten(output_json.content)) \subseteq Ids(json_students)

\* C1 witness: a completed run in which two schools each got a student.
C1_Witness ==
    /\ pc = "done"
    /\ UniqueIds(json_students)
    /\ Len(output_json.content) = 2
    /\ output_json.content[1].values # <<>>
    /\ output_json.content[2].values # <<>>

\* C2: after every iteration and in the output, the list of every school is
\* no longer than the school's maxAllocation.
C2_CapacityRespected ==
    /\ \A i \in 1..Len(result) :
           Len(result[i].values) <= SchoolNamed(result[i].key).maxAllocation
    /\ output_json.written =>
           \A i \in 1..Len(output_json.content) :
               Len(output_json.content[i].values)
                   <= SchoolNamed(output_json.content[i].key).maxAllocation

\* C2 witness: the first school is full and students are left over.
C2_Witness ==
    /\ Len(result) >= 1
    /\ Len(result[1].values) = schools[1].maxAllocation
    /\ schools[1].maxAllocation >= 1
    /\ students # <<>>

\* C3: an iteration that completes allocates students of the current list,
\* highest score first, and leaves no student with a strictly higher score at
\* that school than an allocated one.
C3_TopScoringPrefix ==
    [][IterationCompleted =>
        LET school == schools[school_index]
            got == JustAllocated
        IN /\ Elems(got) \subseteq Ids(students)
           /\ \A i, j \in 1..Len(got) :
                  i < j => Score(StudentWithId(students, got[i]), school)
                           >= Score(StudentWithId(students, got[j]), school)
           /\ \A i \in 1..Len(got) : \A r \in 1..Len(students') :
                  Score(students'[r], school)
                      <= Score(StudentWithId(students, got[i]), school)
      ]_vars

\* C3 witness: the first school took a student and left one who scores
\* strictly lower there.
C3_Witness ==
    /\ pc = "loop"
    /\ school_index = 2
    /\ result[1].values # <<>>
    /\ \E r \in 1..Len(students) : \E j \in 1..Len(json_students) :
           /\ json_students[j].id = result[1].values[Len(result[1].values)]
           /\ Score(students[r], schools[1]) < Score(json_students[j], schools[1])

\* C4: in an iteration that completes, of two students of the current list with
\* equal score at the school, if the one with the larger id is allocated then
\* the one with the smaller id is allocated too, earlier in the list.
C4_TieBreakSmallerId ==
    [][IterationCompleted =>
        LET school == schools[school_index]
            got == JustAllocated
        IN \A a, b \in 1..Len(students) :
               (/\ students[a].id < students[b].id
                /\ Score(students[a], school) = Score(students[b], school)
                /\ students[b].id \in Elems(got))
               => /\ students[a].id \in Elems(got)
                  /\ IndexOf(got, students[a].id) < IndexOf(got, students[b].id)
      ]_vars

\* C4 witness: two students tied at the first school, which had one place:
\* the smaller id got it and the larger id is still in the list.
C4_Witness ==
    /\ pc = "loop"
    /\ school_index = 2
    /\ Len(result[1].values) = 1
    /\ \E a, b \in 1..Len(json_students) :
           /\ json_students[a].id < json_students[b].id
           /\ Score(json_students[a], schools[1]) = Score(json_students[b], schools[1])
           /\ result[1].values[1] = json_students[a].id
           /\ json_students[b].id \in Ids(students)
           /\ b < a

\* C5: when the school names are unique and the run completes, the output has
\* one entry per school, in the order of the schools, empty lists included.
C5_OneEntryPerSchool ==
    (pc = "done" /\ UniqueNames(schools)) =>
        /\ Len(output_json.content) = Len(schools)
        /\ \A i \in 1..Len(schools) : output_json.content[i].key = schools[i].name

\* C5 witness: a completed run of two schools, the second with an empty list.
C5_Witness ==
    /\ pc = "done"
    /\ UniqueNames(schools)
    /\ Len(schools) = 2
    /\ Len(output_json.content) = 2
    /\ output_json.content[1].values # <<>>
    /\ output_json.content[2].values = <<>>

\* C6: when a school is processed while a student of the current list lives
\* where the school stands, the run ends in an error with output.json not
\* written, and nothing is done after the error.
C6_AbortsWithoutOutput ==
    [][/\ (Processing /\ LivesAtSchool(students, schools[school_index])) =>
              (pc' = "error" /\ ~output_json'.written)
       /\ pc = "error" => (~output_json.written /\ UNCHANGED vars)
      ]_vars

\* C6 witness: the run ended in an error after a school had got a student,
\* and output.json is not written.
C6_Witness ==
    /\ pc = "error"
    /\ Len(result) >= 1
    /\ result[1].values # <<>>
    /\ ~output_json.written

\* The exceptions of a generic arithmetic fault (ArithmeticError and its
\* built-in subclasses).
ArithmeticFaults ==
    {"ArithmeticError", "ZeroDivisionError", "OverflowError", "FloatingPointError"}

\* C7: when a school is processed while a student of the current list lives
\* where the school stands, the failure raised is not a generic arithmetic
\* fault, and no allocation is made with a substituted distance.
C7_TypedFailure ==
    [][(Processing /\ LivesAtSchool(students, schools[school_index])) =>
          /\ pc' = "error"
          /\ exception' \notin ArithmeticFaults
          /\ UNCHANGED <<students, result>>
      ]_vars

\* C8: when the ids of the input are unique and the run completes, main() on
\* the same schools and any ordering of the same students writes the same
\* output.
C8_OrderIndependent ==
    (pc = "done" /\ UniqueIds(json_students)) =>
        \A p \in Orderings(json_students) : Main(schools, p) = Ok(output_json.content)

\* C8 witness: a completed run in which two students tied at the first
\* school and only one of them got a place there.
C8_Witness ==
    /\ pc = "done"
    /\ UniqueIds(json_students)
    /\ Len(output_json.content) >= 1
    /\ \E a, b \in 1..Len(json_students) :
           /\ a < b
           /\ Score(json_students[a], schools[1]) = Score(json_students[b], schools[1])
           /\ Cardinality({json_students[a].id, json_students[b].id}
                          \cap Elems(output_json.content[1].values)) = 1

\* C9: an iteration that completes for a school of non-negative maxAllocation
\* allocates min(maxAllocation, number of current students) students and leaves
\* exactly the current students that were not allocated; when maxAllocation
\* exceeds the number of current students it allocates them all, and a school
\* processed when no student is left gets an empty list.
C9_TakesMinOfCapacityAndPool ==
    [][(IterationCompleted /\ schools[school_index].maxAllocation >= 0) =>
        LET school == schools[school_index]
            got == JustAllocated
        IN /\ Len(got) = Min(school.maxAllocation, Len(students))
           /\ students' = SelectSeq(students, LAMBDA s : s.id \notin Elems(got))
           /\ Len(students') = Len(students) - Len(got)
           /\ school.maxAllocation > Len(students) =>
                  (Elems(got) = Ids(students) /\ students' = <<>>)
           /\ students = <<>> => got = <<>>
      ]_vars

\* C9 witness: the first school had more places than there were students and
\* took them all; the second school, with places, got an empty list.
C9_Witness ==
    /\ pc = "loop"
    /\ school_index = 3
    /\ result[1].values # <<>>
    /\ Len(result[1].values) < schools[1].maxAllocation
    /\ schools[2].maxAllocation > 0
    /\ result[2].values = <<>>

\* C10 as stated: whatever students are in the current list, processing a
\* school of maxAllocation 0 records an empty list for it and leaves the
\* current list unchanged.
C10_ZeroCapacityAnyPool ==
    [][(Processing /\ schools[school_index].maxAllocation = 0) =>
          /\ HasKey(result', schools[school_index].name)
          /\ JustAllocated = <<>>
          /\ students' = students
      ]_vars

\* C10 amended: processing a school of maxAllocation 0 while no student of the
\* current list lives where the school stands records an empty list for it and
\* leaves the current list unchanged.
C10_ZeroCapacityNoOneAtSchool ==
    [][(/\ Processing
        /\ schools[school_index].maxAllocation = 0
        /\ ~LivesAtSchool(students, schools[school_index])) =>
          /\ pc' = "loop"
          /\ HasKey(result', schools[school_index].name)
          /\ JustAllocated = <<>>
          /\ students' = students
      ]_vars

\* C10 witness: the first school had no place, got an empty list, and every
\* input student is still in the current list.
C10_Witness ==
    /\ pc = "loop"
    /\ school_index = 2
    /\ schools[1].maxAllocation = 0
    /\ result[1].values = <<>>
    /\ students = json_students
    /\ students # <<>>

====
